---- MODULE Spec2Model ----
(***************************************************************************)
(* The shopping cart of the e-commerce API: the cart controller            *)
(* (src/src/controllers/CartController.js), its routes and their           *)
(* validation chains (second half of src/src/models/Product.js), and the   *)
(* catalog operations of the product controller (src/unnamed/part_001)     *)
(* that change what the cart handlers read: price, stock and isActive.     *)
(*                                                                         *)
(* Money is counted in cents, so the 0.01 tolerance of validateCart is 1   *)
(* and a coupon's fixed amount of 50 is 5000.  The amounts applyCoupon     *)
(* returns are kept in hundredths of a cent, because a percentage of a     *)
(* total in cents need not be a whole number of cents.                     *)
(*                                                                         *)
(* One user's cart is modelled.  In Spec each request runs to completion   *)
(* before the next one starts (one action per handler); in SpecRace two    *)
(* addToCart requests of the user interleave at their awaits.              *)
(***************************************************************************)
EXTENDS Integers, Sequences, FiniteSets, TLC

VARIABLES
    catalog,    \* the products collection: id -> [price, inventory.quantity, isActive]
    cart,       \* the user's document of the carts collection (exists = FALSE: none)
    last,       \* the response of the last request, and whether it wrote the cart
    inflight,   \* the addToCart requests between their awaits: request -> progress
    hist        \* history: the cart when the requests in flight began, and whether
                \* one of them read the cart between another's read and save

vars == <<catalog, cart, last, inflight, hist>>

\* What the handlers that run to completion in one step leave alone.
raceVars == <<inflight, hist>>

----------------------------------------------------------------------------
(* Bounds *)

\* Largest inventory quantity a product is given.
MaxStock == 2

\* Product documents of the catalog.
Products == {"p1", "p2"}

\* A well-formed id that names no product document.
UnknownProduct == "p9"

ReqProducts == Products \cup {UnknownProduct}

\* Prices (in cents) an administrator gives a product: 10.00, 10.01, 30.00.
Prices == {1000, 1001, 3000}

\* The first product's price moves over all of Prices; the second keeps one price.
PricesOf(id) == IF id = "p1" THEN Prices ELSE {3000}

\* The first product's stock moves over 0..MaxStock; the second stays fully stocked.
StocksOf(id) == IF id = "p1" THEN 0..MaxStock ELSE {MaxStock}

\* Quantities a request asks for: 0 (refused by the route), and up to one more
\* than any stock.
ReqQty == 0..(MaxStock + 1)

\* Coupon codes a request carries: the three known ones and an unknown one.
ReqCoupons == {"SAVE10", "WELCOME20", "FLAT50", "SAVE99"}

----------------------------------------------------------------------------
(* Helpers *)

Abs(x) == IF x < 0 THEN -x ELSE x

Min(a, b) == IF a < b THEN a ELSE b

RECURSIVE SumQty(_)
SumQty(items) ==
    IF items = <<>> THEN 0 ELSE Head(items).quantity + SumQty(Tail(items))

RECURSIVE SumPrice(_)
SumPrice(items) ==
    IF items = <<>> THEN 0
    ELSE Head(items).price * Head(items).quantity + SumPrice(Tail(items))

\* A findIndex that finds no line (changed: see findIndex).
findIndexNeverMatches(items, productId) == 0

\* Array.prototype.findIndex on cart.items by product id: the first match, 0 if none
\* (the source's -1; sequences are indexed from 1 here).
findIndex(items, productId) ==
    IF \E i \in 1..Len(items) : items[i].product = productId
    THEN CHOOSE i \in 1..Len(items) :
            /\ items[i].product = productId
            /\ \A j \in 1..(i - 1) : items[j].product # productId
    ELSE 0

\* Array.prototype.splice(index) without a delete count: everything from index on
\* goes (changed: see splice).
spliceToEnd(items, index) == SubSeq(items, 1, index - 1)

\* Array.prototype.splice(index, 1)
splice(items, index) ==
    [i \in 1..(Len(items) - 1) |-> IF i < index THEN items[i] ELSE items[i + 1]]

----------------------------------------------------------------------------
(* The Cart model *)

NoCart == [exists |-> FALSE, items |-> <<>>, totalItems |-> 0, totalPrice |-> 0]

\* cart.save(): the totals are derived from the items whenever the document is
\* persisted.
CartSave(doc) ==
    [exists |-> TRUE,
     items |-> doc.items,
     totalItems |-> SumQty(doc.items),
     totalPrice |-> SumPrice(doc.items)]

\* Product.findById(productId): is there such a document.
ProductExists(c, productId) == productId \in DOMAIN c

----------------------------------------------------------------------------
(* Responses *)

\* The data object of a response that has none of the fields below; fields names
\* the keys the object carries.
NoData ==
    [fields |-> {}, totalItems |-> 0, totalPrice |-> 0, itemsCount |-> 0,
     isEmpty |-> FALSE, products |-> {}]

Response(op, pid, qty, status, success, msg) ==
    [op |-> op, pid |-> pid, qty |-> qty, status |-> status, success |-> success,
     msg |-> msg, n |-> 0, saved |-> FALSE, code |-> "-",
     discountAmount |-> 0, finalPrice |-> 0, errors |-> <<>>, data |-> NoData]

\* The validateRequest middleware answers a request whose validation chain failed.
validateRequest(op, pid, qty) ==
    Response(op, pid, qty, 400, FALSE, "Validation failed")

Outcome(c, res) == [cart |-> c, res |-> res]

----------------------------------------------------------------------------
(* The cart controller *)

\* item.product && item.product.isActive, on a populated line item: populate
\* leaves null where the product document is missing.
IsAvailable(cat, item) ==
    ProductExists(cat, item.product) /\ cat[item.product].isActive

\* new Cart({ user, items: [] }) without a save, where a handler has to give up
\* on creating the cart (changed: see CreateEmptyCart).
CreateEmptyCartUnsaved == NoCart

\* Cart.create({ user, items: [], totalItems: 0, totalPrice: 0 }): persisted.
CreateEmptyCart ==
    [exists |-> TRUE, items |-> <<>>, totalItems |-> 0, totalPrice |-> 0]

\* exports.getCart
getCart(c, cat) ==
    LET found == IF c.exists THEN c ELSE CreateEmptyCart
        filtered == SelectSeq(found.items, LAMBDA item : IsAvailable(cat, item))
        doc == [found EXCEPT !.items = filtered]
        resave == Len(filtered) # found.totalItems
        res == [Response("getCart", "-", 0, 200, TRUE, "-") EXCEPT !.saved = resave]
    IN  Outcome(IF resave THEN CartSave(doc) ELSE found, res)

\* The merge check of addToCart with the line's own quantity left out (changed:
\* see MergeExceedsStock).
MergeExceedsStockIgnoringLine(product, item, quantity) ==
    product.inventory.quantity < quantity

\* product.inventory.quantity < newQuantity, newQuantity the line's quantity plus
\* the requested one.
MergeExceedsStock(product, item, quantity) ==
    product.inventory.quantity < item.quantity + quantity

\* The merge of addToCart assigning the requested quantity instead of the sum
\* (changed: see MergeItem).
MergeItemOverwrite(product, item, quantity) ==
    [item EXCEPT !.quantity = quantity]

\* The merge of addToCart taking the live price as well (changed: see MergeItem).
MergeItemWithPrice(product, item, quantity) ==
    [item EXCEPT !.quantity = item.quantity + quantity, !.price = product.price]

\* cart.items[existingItemIndex].quantity = newQuantity: nothing else of the line
\* is assigned.
MergeItem(product, item, quantity) ==
    [item EXCEPT !.quantity = item.quantity + quantity]

\* exports.addToCart
addToCart(c, cat, productId, quantity) ==
    LET fail(status, msg, n) ==
            Outcome(c, [Response("addItem", productId, quantity, status, FALSE, msg)
                           EXCEPT !.n = n])
        ok(doc) ==
            Outcome(CartSave(doc),
                    [Response("addItem", productId, quantity, 200, TRUE,
                              "Item added to cart successfully")
                        EXCEPT !.saved = TRUE])
    IN  IF ~ProductExists(cat, productId) \/ ~cat[productId].isActive
        THEN fail(404, "Product not found or inactive", 0)
        ELSE
        LET product == cat[productId]
            doc == IF c.exists THEN c ELSE NoCart
            existingItemIndex == findIndex(doc.items, productId)
        IN  IF product.inventory.quantity < quantity
            THEN fail(400, "Only N items available in stock",
                      product.inventory.quantity)
            ELSE IF existingItemIndex > 0
            THEN LET item == doc.items[existingItemIndex]
                 IN  IF MergeExceedsStock(product, item, quantity)
                     THEN fail(400, "Cannot add Q items. Only N more available",
                               product.inventory.quantity - item.quantity)
                     ELSE ok([doc EXCEPT !.items[existingItemIndex] =
                                 MergeItem(product, item, quantity)])
            ELSE ok([doc EXCEPT !.items =
                        Append(@, [product |-> productId,
                                   quantity |-> quantity,
                                   price |-> product.price])])

\* updateCartItem with the line assigned and saved before the product is looked
\* up (changed: see updateCartItem).
updateCartItemSaveFirst(c, cat, productId, quantity) ==
    LET fail(doc, status, msg, n) ==
            Outcome(doc, [Response("updateItem", productId, quantity, status, FALSE, msg)
                             EXCEPT !.n = n])
        itemIndex == findIndex(c.items, productId)
        saved == CartSave([c EXCEPT !.items[itemIndex].quantity = quantity])
    IN  IF quantity < 1 THEN fail(c, 400, "Quantity must be at least 1", 0)
        ELSE IF ~c.exists THEN fail(c, 404, "Cart not found", 0)
        ELSE IF itemIndex = 0 THEN fail(c, 404, "Item not found in cart", 0)
        ELSE IF ~ProductExists(cat, productId) \/ ~cat[productId].isActive
        THEN fail(saved, 404, "Product not found or inactive", 0)
        ELSE IF cat[productId].inventory.quantity < quantity
        THEN fail(saved, 400, "Only N items available in stock",
                  cat[productId].inventory.quantity)
        ELSE Outcome(CartSave([c EXCEPT
                                  !.items[itemIndex].quantity = quantity,
                                  !.items[itemIndex].price = cat[productId].price]),
                     [Response("updateItem", productId, quantity, 200, TRUE,
                               "Cart updated successfully")
                         EXCEPT !.saved = TRUE])

\* exports.updateCartItem
updateCartItem(c, cat, productId, quantity) ==
    LET fail(status, msg, n) ==
            Outcome(c, [Response("updateItem", productId, quantity, status, FALSE, msg)
                           EXCEPT !.n = n])
        itemIndex == findIndex(c.items, productId)
    IN  IF quantity < 1 THEN fail(400, "Quantity must be at least 1", 0)
        ELSE IF ~c.exists THEN fail(404, "Cart not found", 0)
        ELSE IF itemIndex = 0 THEN fail(404, "Item not found in cart", 0)
        ELSE IF ~ProductExists(cat, productId) \/ ~cat[productId].isActive
        THEN fail(404, "Product not found or inactive", 0)
        ELSE IF cat[productId].inventory.quantity < quantity
        THEN fail(400, "Only N items available in stock",
                  cat[productId].inventory.quantity)
        ELSE Outcome(CartSave([c EXCEPT
                                  !.items[itemIndex].quantity = quantity,
                                  !.items[itemIndex].price = cat[productId].price]),
                     [Response("updateItem", productId, quantity, 200, TRUE,
                               "Cart updated successfully")
                         EXCEPT !.saved = TRUE])

\* exports.removeFromCart
removeFromCart(c, productId) ==
    LET fail(msg) == Outcome(c, Response("removeItem", productId, 0, 404, FALSE, msg))
        itemIndex == findIndex(c.items, productId)
    IN  IF ~c.exists THEN fail("Cart not found")
        ELSE IF itemIndex = 0 THEN fail("Item not found in cart")
        ELSE Outcome(CartSave([c EXCEPT !.items = splice(@, itemIndex)]),
                     [Response("removeItem", productId, 0, 200, TRUE,
                               "Item removed from cart successfully")
                         EXCEPT !.saved = TRUE])

\* clearCart deleting the cart document instead of emptying it (changed: see
\* clearCart).
clearCartDeleting(c) ==
    IF ~c.exists
    THEN Outcome(c, Response("clearCart", "-", 0, 404, FALSE, "Cart not found"))
    ELSE Outcome(NoCart,
                 [Response("clearCart", "-", 0, 200, TRUE, "Cart cleared successfully")
                     EXCEPT !.saved = TRUE])

\* clearCart writing the emptied items past the model's save (changed: see
\* clearCart).
clearCartKeepingTotals(c) ==
    IF ~c.exists
    THEN Outcome(c, Response("clearCart", "-", 0, 404, FALSE, "Cart not found"))
    ELSE Outcome([c EXCEPT !.items = <<>>],
                 [Response("clearCart", "-", 0, 200, TRUE, "Cart cleared successfully")
                     EXCEPT !.saved = TRUE])

\* exports.clearCart
clearCart(c) ==
    IF ~c.exists
    THEN Outcome(c, Response("clearCart", "-", 0, 404, FALSE, "Cart not found"))
    ELSE Outcome(CartSave([c EXCEPT !.items = <<>>]),
                 [Response("clearCart", "-", 0, 200, TRUE, "Cart cleared successfully")
                     EXCEPT !.saved = TRUE])

\* exports.getCartSummary
getCartSummary(c) ==
    IF ~c.exists \/ Len(c.items) = 0
    THEN Outcome(c, [Response("getSummary", "-", 0, 200, TRUE, "-") EXCEPT
                        !.data = [NoData EXCEPT
                                     !.fields = {"totalItems", "totalPrice", "isEmpty"},
                                     !.totalItems = 0,
                                     !.totalPrice = 0,
                                     !.isEmpty = TRUE]])
    ELSE Outcome(c, [Response("getSummary", "-", 0, 200, TRUE, "-") EXCEPT
                        !.data = [NoData EXCEPT
                                     !.fields = {"totalItems", "totalPrice",
                                                 "itemsCount", "isEmpty"},
                                     !.totalItems = c.totalItems,
                                     !.totalPrice = c.totalPrice,
                                     !.itemsCount = Len(c.items),
                                     !.isEmpty = FALSE]])

\* The error validateCart records for one populated line item, "" if none.
ItemError(cat, item) ==
    IF ~ProductExists(cat, item.product) \/ ~cat[item.product].isActive
    THEN "unavailable"
    ELSE IF cat[item.product].inventory.quantity < item.quantity
    THEN "insufficient_stock"
    ELSE IF Abs(item.price - cat[item.product].price) > 1
    THEN "price_change"
    ELSE ""

\* validateCart's loop with a continue after the price_change error (changed: see
\* IsValidItem).
IsValidItemSamePrice(cat, item) == ItemError(cat, item) = ""

\* validateCart's loop pushes to validItems the items that reach its end: the two
\* first errors continue, the price_change error does not.
IsValidItem(cat, item) == ItemError(cat, item) \in {"", "price_change"}

\* exports.validateCart
validateCart(c, cat) ==
    IF ~c.exists \/ Len(c.items) = 0
    THEN Outcome(c, Response("validateCart", "-", 0, 400, FALSE, "Cart is empty"))
    ELSE
    LET errors == SelectSeq([i \in 1..Len(c.items) |->
                                [productId |-> c.items[i].product,
                                 type |-> ItemError(cat, c.items[i])]],
                            LAMBDA e : e.type # "")
        validItems == SelectSeq(c.items, LAMBDA item : IsValidItem(cat, item))
        update == Len(errors) > 0 /\ Len(validItems) # Len(c.items)
    IN  Outcome(IF update THEN CartSave([c EXCEPT !.items = validItems]) ELSE c,
                [Response("validateCart", "-", 0, 200, Len(errors) = 0, "-") EXCEPT
                    !.saved = update,
                    !.errors = errors,
                    !.n = Len(validItems)])

\* validCoupons: the fixed amount is in cents.
validCoupons ==
    [code \in {"SAVE10", "WELCOME20", "FLAT50"} |->
        CASE code = "SAVE10" -> [discount |-> 10, type |-> "percentage"]
          [] code = "WELCOME20" -> [discount |-> 20, type |-> "percentage"]
          [] code = "FLAT50" -> [discount |-> 5000, type |-> "fixed"]]

\* The discount of applyCoupon with the fixed amount not capped (changed: see
\* DiscountAmount).
DiscountAmountUncapped(coupon, totalPrice) ==
    IF coupon.type = "percentage"
    THEN totalPrice * coupon.discount
    ELSE coupon.discount * 100

\* discountAmount of applyCoupon, in hundredths of a cent.
DiscountAmount(coupon, totalPrice) ==
    IF coupon.type = "percentage"
    THEN totalPrice * coupon.discount
    ELSE Min(coupon.discount, totalPrice) * 100

\* applyCoupon saving the discounted total in the cart (changed: see applyCoupon).
applyCouponSaving(c, couponCode) ==
    IF couponCode \notin DOMAIN validCoupons \/ ~c.exists \/ Len(c.items) = 0
    THEN Outcome(c, [Response("applyCoupon", "-", 0, 400, FALSE, "rejected")
                        EXCEPT !.code = couponCode])
    ELSE LET discountAmount == DiscountAmount(validCoupons[couponCode], c.totalPrice)
             finalPrice == c.totalPrice * 100 - discountAmount
         IN  Outcome([c EXCEPT !.totalPrice = finalPrice \div 100],
                     [Response("applyCoupon", "-", 0, 200, TRUE,
                               "Coupon applied successfully")
                         EXCEPT !.code = couponCode,
                                !.saved = TRUE,
                                !.discountAmount = discountAmount,
                                !.finalPrice = finalPrice])

\* exports.applyCoupon: the amounts are in hundredths of a cent.
applyCoupon(c, couponCode) ==
    LET fail(msg) ==
            Outcome(c, [Response("applyCoupon", "-", 0, 400, FALSE, msg)
                           EXCEPT !.code = couponCode])
    IN  IF couponCode \notin DOMAIN validCoupons THEN fail("Invalid coupon code")
        ELSE IF ~c.exists \/ Len(c.items) = 0 THEN fail("Cart is empty")
        ELSE
        LET coupon == validCoupons[couponCode]
            discountAmount == DiscountAmount(coupon, c.totalPrice)
            finalPrice == c.totalPrice * 100 - discountAmount
        IN  Outcome(c, [Response("applyCoupon", "-", 0, 200, TRUE,
                                 "Coupon applied successfully")
                           EXCEPT !.code = couponCode,
                                  !.discountAmount = discountAmount,
                                  !.finalPrice = finalPrice])

----------------------------------------------------------------------------
(* The cart routes: validation chain, validateRequest, then the handler *)

\* body('quantity').optional().isInt({ min: 1, max: 100 })
addToCartValidation(hasQuantity, quantity) ==
    ~hasQuantity \/ (quantity >= 1 /\ quantity <= 100)

\* body('quantity').isInt({ min: 1, max: 100 })
updateCartValidation(quantity) == quantity >= 1 /\ quantity <= 100

\* The handler's outcome becomes the persisted cart and the response.
Respond(o) == cart' = o.cart /\ last' = o.res /\ UNCHANGED raceVars

\* GET /api/cart
GetCart ==
    /\ Respond(getCart(cart, catalog))
    /\ UNCHANGED catalog

\* POST /api/cart/add; an absent quantity defaults to 1 in the handler.
AddItem ==
    \E productId \in ReqProducts, hasQuantity \in BOOLEAN, q \in ReqQty :
        LET quantity == IF hasQuantity THEN q ELSE 1
        IN  /\ IF addToCartValidation(hasQuantity, q)
               THEN Respond(addToCart(cart, catalog, productId, quantity))
               ELSE Respond(Outcome(cart, validateRequest("addItem", productId, q)))
            /\ UNCHANGED catalog

\* PUT /api/cart/update
UpdateItem ==
    \E productId \in ReqProducts, quantity \in ReqQty :
        /\ IF updateCartValidation(quantity)
           THEN Respond(updateCartItem(cart, catalog, productId, quantity))
           ELSE Respond(Outcome(cart,
                                validateRequest("updateItem", productId, quantity)))
        /\ UNCHANGED catalog

\* DELETE /api/cart/remove
RemoveItem ==
    \E productId \in ReqProducts :
        /\ Respond(removeFromCart(cart, productId))
        /\ UNCHANGED catalog

\* DELETE /api/cart/clear
ClearCart ==
    /\ Respond(clearCart(cart))
    /\ UNCHANGED catalog

\* GET /api/cart/summary
GetSummary ==
    /\ Respond(getCartSummary(cart))
    /\ UNCHANGED catalog

\* POST /api/cart/validate
ValidateCart ==
    /\ Respond(validateCart(cart, catalog))
    /\ UNCHANGED catalog

\* POST /api/cart/coupon
ApplyCoupon ==
    \E couponCode \in ReqCoupons :
        /\ Respond(applyCoupon(cart, couponCode))
        /\ UNCHANGED catalog

----------------------------------------------------------------------------
(* The product controller: what an administrator changes under the cart *)

AdminResponse(op, pid) == Response(op, pid, 0, 200, TRUE, "-")

\* exports.updateProduct with a body that sets the price
UpdatePrice ==
    \E id \in Products, price \in Prices :
        /\ price \in PricesOf(id)
        /\ catalog[id].price # price
        /\ catalog' = [catalog EXCEPT ![id].price = price]
        /\ last' = AdminResponse("updateProduct", id)
        /\ UNCHANGED <<cart, raceVars>>

\* exports.updateProduct with a body that sets isActive to true
Reactivate ==
    \E id \in Products :
        /\ ~catalog[id].isActive
        /\ catalog' = [catalog EXCEPT ![id].isActive = TRUE]
        /\ last' = AdminResponse("updateProduct", id)
        /\ UNCHANGED <<cart, raceVars>>

\* exports.deleteProduct: a soft delete
DeleteProduct ==
    \E id \in Products :
        /\ catalog[id].isActive
        /\ catalog' = [catalog EXCEPT ![id].isActive = FALSE]
        /\ last' = AdminResponse("deleteProduct", id)
        /\ UNCHANGED <<cart, raceVars>>

\* exports.updateInventory with a body that sets quantity
UpdateInventory ==
    \E id \in Products, quantity \in 0..MaxStock :
        /\ quantity \in StocksOf(id)
        /\ catalog[id].inventory.quantity # quantity
        /\ catalog' = [catalog EXCEPT ![id].inventory.quantity = quantity]
        /\ last' = AdminResponse("updateInventory", id)
        /\ UNCHANGED <<cart, raceVars>>

----------------------------------------------------------------------------
(* Two addToCart requests of the user, interleaved at their awaits *)

\* The requests in flight at once.
Requests == {"r1", "r2"}

\* A request that has not started.
Idle ==
    [pc |-> "idle", productId |-> "-", quantity |-> 0, doc |-> NoCart,
     res |-> Response("none", "-", 0, 200, TRUE, "-")]

\* addToCart up to its await cart.save(): the product and the cart are read, the
\* checks are made and the document to save is built from the cart as read.  An
\* error is answered at once.
AddRead(r) ==
    \E productId \in Products, quantity \in 1..MaxStock :
        LET o == addToCart(cart, catalog, productId, quantity)
        IN  /\ inflight[r].pc = "idle"
            /\ inflight' = [inflight EXCEPT ![r] =
                    [pc |-> IF o.res.success THEN "read" ELSE "done",
                     productId |-> productId,
                     quantity |-> quantity,
                     doc |-> o.cart,
                     res |-> o.res]]
            /\ hist' = [hist EXCEPT !.overlap =
                    @ \/ \E other \in Requests \ {r} : inflight[other].pc = "read"]
            /\ last' = IF o.res.success THEN last ELSE o.res
            /\ UNCHANGED <<catalog, cart>>

\* await cart.save() and the response: the document built from the cart as read
\* replaces the persisted one.
AddSave(r) ==
    /\ inflight[r].pc = "read"
    /\ cart' = inflight[r].doc
    /\ last' = inflight[r].res
    /\ inflight' = [inflight EXCEPT ![r].pc = "done"]
    /\ UNCHANGED <<catalog, hist>>

\* Both requests are answered: the next two start from the cart as it is.
NextRequests ==
    /\ \A r \in Requests : inflight[r].pc = "done"
    /\ inflight' = [r \in Requests |-> Idle]
    /\ hist' = [base |-> cart, overlap |-> FALSE]
    /\ UNCHANGED <<catalog, cart, last>>

\* Both products active and fully stocked; the catalog does not change while the
\* requests race.
InitRace ==
    /\ catalog = [id \in Products |->
                     [price |-> 3000,
                      inventory |-> [quantity |-> MaxStock],
                      isActive |-> TRUE]]
    /\ cart = NoCart
    /\ last = Response("start", "-", 0, 200, TRUE, "-")
    /\ inflight = [r \in Requests |-> Idle]
    /\ hist = [base |-> NoCart, overlap |-> FALSE]

NextRace ==
    \/ \E r \in Requests : AddRead(r)
    \/ \E r \in Requests : AddSave(r)
    \/ NextRequests

SpecRace == InitRace /\ [][NextRace]_vars

----------------------------------------------------------------------------
(* Reviews of a product *)

\* Largest number of users that review.
MaxUsers == 3

Users == 1..MaxUsers

\* Ratings a request carries: 0 is refused by the route.
ReqRatings == 0..5

\* A product document with the fields the product controller reads; the average
\* rating is kept in tenths.
ProductDoc(price, quantity, isActive, category, tags) ==
    [price |-> price,
     inventory |-> [quantity |-> quantity],
     isActive |-> isActive,
     category |-> category,
     tags |-> tags,
     reviews |-> <<>>,
     ratings |-> [average |-> 0, count |-> 0]]

RECURSIVE SumRatings(_)
\* this.reviews.reduce((acc, review) => acc + review.rating, 0)
SumRatings(reviews) ==
    IF reviews = <<>> THEN 0 ELSE Head(reviews).rating + SumRatings(Tail(reviews))

\* Math.round(x * 10) for x = sum / count: the floor of x * 10 + 1/2.
RoundTenths(sum, count) == (20 * sum + count) \div (2 * count)

\* calculateAverageRating with Math.floor in place of Math.round (changed: see
\* calculateAverageRating).
calculateAverageRatingFloor(product) ==
    IF Len(product.reviews) = 0
    THEN [product EXCEPT !.ratings = [average |-> 0, count |-> 0]]
    ELSE [product EXCEPT !.ratings =
             [average |-> (10 * SumRatings(product.reviews))
                              \div Len(product.reviews),
              count |-> Len(product.reviews)]]

\* productSchema.methods.calculateAverageRating
calculateAverageRating(product) ==
    IF Len(product.reviews) = 0
    THEN [product EXCEPT !.ratings = [average |-> 0, count |-> 0]]
    ELSE [product EXCEPT !.ratings =
             [average |-> RoundTenths(SumRatings(product.reviews),
                                      Len(product.reviews)),
              count |-> Len(product.reviews)]]

\* exports.addReview: the catalog it leaves and its response.  An error response
\* carries a message only; the 201 carries the review.
addReview(cat, id, user, rating) ==
    IF ~ProductExists(cat, id)
    THEN [catalog |-> cat,
          res |-> Response("addReview", id, 0, 404, FALSE, "Product not found")]
    ELSE IF \E i \in 1..Len(cat[id].reviews) : cat[id].reviews[i].user = user
    THEN [catalog |-> cat,
          res |-> Response("addReview", id, 0, 400, FALSE,
                           "You have already reviewed this product")]
    ELSE [catalog |-> [cat EXCEPT ![id] =
                          calculateAverageRating(
                              [@ EXCEPT !.reviews =
                                  Append(@, [user |-> user, rating |-> rating])])],
          res |-> [Response("addReview", id, rating, 201, TRUE,
                            "Review added successfully")
                      EXCEPT !.n = user]]

\* body('rating').isInt({ min: 1, max: 5 })
addReviewValidation(rating) == rating >= 1 /\ rating <= 5

\* Products that receive reviews.
Reviewed == {"p1"}

\* POST /api/products/:id/reviews
AddReview ==
    \E id \in Reviewed, user \in Users, rating \in ReqRatings :
        LET o == addReview(catalog, id, user, rating)
        IN  /\ IF addReviewValidation(rating)
               THEN catalog' = o.catalog /\ last' = o.res
               ELSE /\ catalog' = catalog
                    /\ last' = validateRequest("addReview", id, 0)
            /\ UNCHANGED <<cart, raceVars>>

\* Two products of one category, without reviews.
InitProducts ==
    /\ catalog = [id \in Products |-> ProductDoc(3000, MaxStock, TRUE, "c1", {id})]
    /\ cart = NoCart
    /\ last = Response("start", "-", 0, 200, TRUE, "-")
    /\ inflight = [r \in Requests |-> Idle]
    /\ hist = [base |-> NoCart, overlap |-> FALSE]

NextReviews == AddReview

SpecReviews == InitProducts /\ [][NextReviews]_vars

----------------------------------------------------------------------------
(* Queries of the product controller *)

\* category values of a list request: "" is a request without the parameter.
ReqCategories == {"", "c1", "c2"}

\* q values of a search request: "" is a request without the parameter.
ReqQueries == {"", "p1", "hat"}

\* A query's response: the ids of the product documents it returns.
ProductsResponse(op, pid, ids) ==
    [Response(op, pid, 0, 200, TRUE, "-") EXCEPT !.data.products = ids]

\* exports.getProducts with the category parameter.  The other parameters
\* (brand, price, rating, search, featured, page, limit) only narrow the result.
getProducts(cat, category) ==
    ProductsResponse("getProducts", "-",
        {id \in DOMAIN cat :
            /\ cat[id].isActive
            /\ category # "" => cat[id].category = category})

\* exports.getProduct: findById, whatever isActive is
getProduct(cat, id) ==
    IF ~ProductExists(cat, id)
    THEN Response("getProduct", id, 0, 404, FALSE, "Product not found")
    ELSE ProductsResponse("getProduct", id, {id})

\* exports.searchProducts.  tags stands for the words of name, description,
\* brand and tags that the $regex conditions are matched against.
searchProducts(cat, q) ==
    IF q = ""
    THEN Response("searchProducts", "-", 0, 400, FALSE, "Search query is required")
    ELSE ProductsResponse("searchProducts", "-",
             {id \in DOMAIN cat : cat[id].isActive /\ q \in cat[id].tags})

\* getRelatedProducts without the isActive condition (changed: see
\* getRelatedProducts).
getRelatedProductsInactiveToo(cat, id) ==
    IF ~ProductExists(cat, id)
    THEN Response("getRelatedProducts", id, 0, 404, FALSE, "Product not found")
    ELSE ProductsResponse("getRelatedProducts", id,
             {other \in DOMAIN cat :
                 /\ other # id
                 /\ cat[other].category = cat[id].category})

\* exports.getRelatedProducts
getRelatedProducts(cat, id) ==
    IF ~ProductExists(cat, id)
    THEN Response("getRelatedProducts", id, 0, 404, FALSE, "Product not found")
    ELSE ProductsResponse("getRelatedProducts", id,
             {other \in DOMAIN cat :
                 /\ other # id
                 /\ cat[other].category = cat[id].category
                 /\ cat[other].isActive})

\* GET /api/products
GetProducts ==
    \E category \in ReqCategories :
        /\ last' = getProducts(catalog, category)
        /\ UNCHANGED <<catalog, cart, raceVars>>

\* GET /api/products/search
SearchProducts ==
    \E q \in ReqQueries :
        /\ last' = searchProducts(catalog, q)
        /\ UNCHANGED <<catalog, cart, raceVars>>

\* GET /api/products/:id
GetProduct ==
    \E id \in ReqProducts :
        /\ last' = getProduct(catalog, id)
        /\ UNCHANGED <<catalog, cart, raceVars>>

\* GET /api/products/:id/related
GetRelatedProducts ==
    \E id \in ReqProducts :
        /\ last' = getRelatedProducts(catalog, id)
        /\ UNCHANGED <<catalog, cart, raceVars>>

NextCatalog ==
    \/ GetProducts
    \/ SearchProducts
    \/ GetProduct
    \/ GetRelatedProducts
    \/ DeleteProduct
    \/ Reactivate
    \/ UpdatePrice
    \/ UpdateInventory

SpecCatalog == InitProducts /\ [][NextCatalog]_vars

----------------------------------------------------------------------------
(* Adds and updates with the largest quantities the routes let through *)

\* Stock of a product that is bought in bulk.
BulkStock == 200

\* The product bought in bulk.
BulkProducts == {"p1"}

\* Quantities of a bulk request: the ends of the range the routes accept, and
\* the first one they refuse.
BulkQty == {1, 100, 101}

\* POST /api/cart/add with a quantity
AddBulk ==
    \E productId \in BulkProducts, quantity \in BulkQty :
        /\ IF addToCartValidation(TRUE, quantity)
           THEN Respond(addToCart(cart, catalog, productId, quantity))
           ELSE Respond(Outcome(cart,
                                validateRequest("addItem", productId, quantity)))
        /\ UNCHANGED catalog

\* PUT /api/cart/update
UpdateBulk ==
    \E productId \in BulkProducts, quantity \in BulkQty :
        /\ IF updateCartValidation(quantity)
           THEN Respond(updateCartItem(cart, catalog, productId, quantity))
           ELSE Respond(Outcome(cart,
                                validateRequest("updateItem", productId, quantity)))
        /\ UNCHANGED catalog

InitBulk ==
    /\ catalog = [id \in Products |->
                     [price |-> 3000,
                      inventory |-> [quantity |-> BulkStock],
                      isActive |-> TRUE]]
    /\ cart = NoCart
    /\ last = Response("start", "-", 0, 200, TRUE, "-")
    /\ inflight = [r \in Requests |-> Idle]
    /\ hist = [base |-> NoCart, overlap |-> FALSE]

NextBulk ==
    \/ AddBulk
    \/ UpdateBulk

SpecBulk == InitBulk /\ [][NextBulk]_vars

----------------------------------------------------------------------------
(* The specification *)

Init ==
    /\ catalog \in [Products -> [price : Prices,
                                 inventory : [quantity : 0..MaxStock],
                                 isActive : BOOLEAN]]
    /\ \A id \in Products :
            /\ catalog[id].price \in PricesOf(id)
            /\ catalog[id].inventory.quantity \in StocksOf(id)
    /\ cart = NoCart
    /\ last = Response("start", "-", 0, 200, TRUE, "-")
    /\ inflight = [r \in Requests |-> Idle]
    /\ hist = [base |-> NoCart, overlap |-> FALSE]

Next ==
    \/ GetCart
    \/ AddItem
    \/ UpdateItem
    \/ RemoveItem
    \/ ClearCart
    \/ GetSummary
    \/ ValidateCart
    \/ ApplyCoupon
    \/ UpdatePrice
    \/ Reactivate
    \/ DeleteProduct
    \/ UpdateInventory

Spec == Init /\ [][Next]_vars

----------------------------------------------------------------------------
(* Properties of the cart *)

\* The quantity of productId in the items, 0 when it has no line.
QuantityInCart(items, productId) ==
    IF findIndex(items, productId) = 0 THEN 0
    ELSE items[findIndex(items, productId)].quantity

OutOfStockMessages ==
    {"Only N items available in stock", "Cannot add Q items. Only N more available"}

CartErrorOps == {"addItem", "updateItem", "removeItem", "clearCart"}

\* C1: in every reachable state the persisted cart's totalItems is the sum of
\* the quantities of its line items and its totalPrice the sum of price times
\* quantity over them.
C1_TotalsMatchItems ==
    /\ cart.totalItems = SumQty(cart.items)
    /\ cart.totalPrice = SumPrice(cart.items)

\* A cart with two lines and a quantity of two on one of them has just been
\* written by a cart operation.
C1_Witness ==
    /\ last.saved
    /\ Len(cart.items) = 2
    /\ cart.totalItems = 3
    /\ cart.totalPrice > 0

\* C2: an addItem that passed the route validation, for a product that has a
\* line of quantity q1, asking for q2: it succeeds exactly when the product is
\* active and q1 + q2 <= its inventory; on success the items are the former
\* items with that line's quantity set to q1 + q2 (no line appended); when the
\* product is active and q1 + q2 exceeds the inventory the answer is one of the
\* two out-of-stock rejections (status 400).
C2_MergeAdd ==
    [][(/\ last'.op = "addItem"
        /\ last'.msg # "Validation failed"
        /\ findIndex(cart.items, last'.pid) > 0)
       => LET p == last'.pid
              i == findIndex(cart.items, p)
              q1 == cart.items[i].quantity
              q2 == last'.qty
              fits == q1 + q2 <= catalog[p].inventory.quantity
          IN  /\ last'.success <=> (catalog[p].isActive /\ fits)
              /\ last'.success =>
                    /\ last'.status = 200
                    /\ Len(cart'.items) = Len(cart.items)
                    /\ cart'.items = [cart.items EXCEPT ![i].quantity = q1 + q2]
              /\ (catalog[p].isActive /\ ~fits) =>
                    /\ last'.status = 400
                    /\ last'.msg \in OutOfStockMessages]_vars

\* An addItem has merged into a line (the line holds more than was asked for), and
\* there is another line in the cart.
C2_Witness ==
    /\ last.op = "addItem"
    /\ last.success
    /\ Len(cart.items) = 2
    /\ QuantityInCart(cart.items, last.pid) > last.qty

\* C3: an addItem, updateItem, removeItem or clearCart that answers with an error
\* leaves the persisted cart as it was: items, quantities, prices, totals, and
\* no cart where there was none.
C3_ErrorLeavesCart ==
    [][(last'.op \in CartErrorOps /\ ~last'.success) =>
          /\ last'.status \in {400, 404}
          /\ cart' = cart]_vars

\* The second add of the scenario: a line holds the whole stock of two, and an
\* addItem for two more has just been rejected as out of stock.
C3_Witness ==
    /\ last.op = "addItem"
    /\ last.status = 400
    /\ last.msg = "Cannot add Q items. Only N more available"
    /\ last.qty = 2
    /\ QuantityInCart(cart.items, last.pid) = 2
    /\ cart.totalItems = 2
    /\ cart.totalPrice = 2 * catalog[last.pid].price

\* C4 (the claim as stated): every out-of-stock rejection of addItem reports the
\* inventory quantity minus the quantity of the product already in the cart.
C4_ReportsRemaining ==
    (/\ last.op = "addItem"
     /\ last.status = 400
     /\ last.msg \in OutOfStockMessages)
    => last.n = catalog[last.pid].inventory.quantity
                    - QuantityInCart(cart.items, last.pid)

\* C5: a successful updateItem leaves the line with the live catalog price; an
\* addItem that appends the line gives it the live catalog price; an addItem
\* that merges into a line leaves the line's price as it was.
C5_PriceSnapshot ==
    [][(last'.success /\ last'.op \in {"addItem", "updateItem"}) =>
          LET p == last'.pid
              i == findIndex(cart.items, p)
              j == findIndex(cart'.items, p)
          IN  /\ j > 0
              /\ last'.op = "updateItem" => cart'.items[j].price = catalog[p].price
              /\ (last'.op = "addItem" /\ i = 0) =>
                    /\ j = Len(cart.items) + 1
                    /\ cart'.items[j].price = catalog[p].price
              /\ (last'.op = "addItem" /\ i > 0) =>
                    /\ j = i
                    /\ cart'.items[j].price = cart.items[i].price]_vars

\* An addItem has merged into a line whose stored price differs from the live
\* price by more than the tolerance.
C5_Witness ==
    /\ last.op = "addItem"
    /\ last.success
    /\ QuantityInCart(cart.items, last.pid) > last.qty
    /\ Abs(cart.items[findIndex(cart.items, last.pid)].price
            - catalog[last.pid].price) > 1

\* The line items a validateCart is to keep: the product exists, is active and
\* has the line's quantity in stock.
C6_Purchasable(item) ==
    /\ item.product \in DOMAIN catalog
    /\ catalog[item.product].isActive
    /\ catalog[item.product].inventory.quantity >= item.quantity

\* C6: after validateCart on a non-empty cart the persisted items are exactly
\* the former line items, in order, whose product exists, is active and has
\* the line's quantity in stock; in particular a line whose stored price has
\* drifted from the live price is kept.
C6_ValidateKeepsPurchasable ==
    [][(last'.op = "validateCart" /\ Len(cart.items) > 0) =>
          /\ last'.status = 200
          /\ cart'.items = SelectSeq(cart.items, C6_Purchasable)]_vars

\* A validateCart has removed a line and kept one whose price had drifted, for
\* which it reported a price_change error.
C6_Witness ==
    /\ last.op = "validateCart"
    /\ last.saved
    /\ Len(cart.items) = 1
    /\ Abs(cart.items[1].price - catalog[cart.items[1].product].price) > 1
    /\ \E k \in 1..Len(last.errors) :
          /\ last.errors[k].type = "price_change"
          /\ last.errors[k].productId = cart.items[1].product

\* C7: on a non-empty cart a known coupon is applied (status 200) with
\* discountAmount = totalPrice * pct / 100 for a percentage coupon and
\* min(fixed amount, totalPrice) for the fixed one, finalPrice = totalPrice -
\* discountAmount, and 0 <= finalPrice <= totalPrice.  Amounts of the response
\* are in hundredths of a cent, totalPrice in cents; applyCoupon leaves the cart
\* as it read it.
C7_CouponArithmetic ==
    (/\ last.op = "applyCoupon"
     /\ last.code \in {"SAVE10", "WELCOME20", "FLAT50"}
     /\ Len(cart.items) > 0)
    => LET t == cart.totalPrice
       IN  /\ last.status = 200
           /\ last.code = "SAVE10" => last.discountAmount * 100 = t * 100 * 10
           /\ last.code = "WELCOME20" => last.discountAmount * 100 = t * 100 * 20
           /\ last.code = "FLAT50" =>
                 last.discountAmount = 100 * (IF t < 5000 THEN t ELSE 5000)
           /\ last.finalPrice = t * 100 - last.discountAmount
           /\ 0 <= last.finalPrice
           /\ last.finalPrice <= t * 100

\* FLAT50 on a total of 30.00: the discount is 30.00 and the final price 0.
C7_Witness ==
    /\ last.op = "applyCoupon"
    /\ last.code = "FLAT50"
    /\ last.status = 200
    /\ cart.totalPrice = 3000
    /\ last.discountAmount = 300000
    /\ last.finalPrice = 0

\* C8: applyCoupon, whatever the code and the cart, leaves the persisted cart
\* as it was.
C8_CouponLeavesCart ==
    [][last'.op = "applyCoupon" => (cart' = cart /\ ~last'.saved)]_vars

\* A coupon has been applied to a non-empty cart, with a discount.
C8_Witness ==
    /\ last.op = "applyCoupon"
    /\ last.status = 200
    /\ last.discountAmount > 0
    /\ Len(cart.items) = 2

\* C9 (the claim as stated): a getCart on an existing cart saves it if and only
\* if filtering out the lines of missing or inactive products changed the number
\* of lines.
C9_SavesIffFiltered ==
    [][(last'.op = "getCart" /\ cart.exists) =>
          (last'.saved <=>
              Len(SelectSeq(cart.items, LAMBDA item : IsAvailable(catalog, item)))
                  # Len(cart.items))]_vars

\* C10: getCart always answers 200 and leaves a cart; where there was none, the
\* cart it persists has no items and zero totals.  A cart, once there, stays,
\* and 'Cart not found' is only ever answered while there is no cart: so no
\* updateItem, removeItem or clearCart after a getCart is answered with it.
C10_GetCartCreates ==
    [][/\ last'.op = "getCart" =>
            /\ last'.status = 200
            /\ last'.success
            /\ cart'.exists
            /\ ~cart.exists =>
                  (/\ cart'.items = <<>>
                   /\ cart'.totalItems = 0
                   /\ cart'.totalPrice = 0)
       /\ cart.exists => cart'.exists
       /\ last'.msg = "Cart not found" => (~cart.exists /\ ~cart'.exists)]_vars

\* A getCart has created the cart: it is there, empty, and nothing was added to
\* it.
C10_Witness ==
    /\ last.op = "getCart"
    /\ cart.exists
    /\ cart.items = <<>>
    /\ ~last.saved

\* C11 (the claim as stated): getSummary answers 200 and leaves the cart as it
\* was; for an absent or empty cart it returns totalItems 0, totalPrice 0 and
\* isEmpty true, otherwise the stored totals, itemsCount = the number of lines
\* and isEmpty false; in both cases the data carries the four fields.
C11_SummaryFourFields ==
    [][last'.op = "getSummary" =>
          /\ last'.status = 200
          /\ last'.success
          /\ cart' = cart
          /\ last'.data.fields = {"totalItems", "totalPrice", "itemsCount", "isEmpty"}
          /\ IF ~cart.exists \/ Len(cart.items) = 0
             THEN /\ last'.data.totalItems = 0
                  /\ last'.data.totalPrice = 0
                  /\ last'.data.isEmpty
             ELSE /\ last'.data.totalItems = cart.totalItems
                  /\ last'.data.totalPrice = cart.totalPrice
                  /\ last'.data.itemsCount = Len(cart.items)
                  /\ ~last'.data.isEmpty]_vars

C13_CartIsNeverDeleted ==
    [][/\ cart.exists => cart'.exists
       /\ last'.op = "clearCart" =>
             IF cart.exists
             THEN /\ last'.status = 200
                  /\ last'.success
                  /\ cart'.exists
                  /\ cart'.items = <<>>
                  /\ cart'.totalItems = 0
                  /\ cart'.totalPrice = 0
             ELSE /\ last'.status = 404
                  /\ ~last'.success
                  /\ cart' = cart]_vars

\* A clearCart has emptied the cart, which is still there.
C13_Witness ==
    /\ last.op = "clearCart"
    /\ last.success
    /\ cart.exists
    /\ cart.items = <<>>
    /\ cart.totalItems = 0

CartOps ==
    {"getCart", "addItem", "updateItem", "removeItem", "clearCart", "getSummary",
     "validateCart", "applyCoupon"}

\* C14 (the claim as stated): the response of a cart operation has success =
\* false if and only if its status is 400 or 404.
C14_FailureIffErrorStatus ==
    last.op \in CartOps => (~last.success <=> last.status \in {400, 404})

\* The answered, successful adds of productId among the requests in flight.
AddedInFlight(productId) ==
    LET Added(r) ==
            IF /\ inflight[r].pc = "done"
               /\ inflight[r].res.success
               /\ inflight[r].productId = productId
            THEN inflight[r].quantity ELSE 0
    IN  Added("r1") + Added("r2")

\* A successful add is missing from the persisted cart.
LostUpdate ==
    \E productId \in Products :
        QuantityInCart(cart.items, productId)
            # QuantityInCart(hist.base.items, productId) + AddedInFlight(productId)

\* C15: as long as no request read the cart between another's read and its save
\* (each read-modify-write ran as one), the persisted cart holds every add that
\* was answered with success; so an add is lost only when the requests
\* overlapped.
C15_NoLostUpdateWhenAtomic == ~hist.overlap => ~LostUpdate

\* Both requests read the same line of quantity 1 before either saved, each
\* added 1 and was answered with success, and the persisted cart is the later
\* writer's document: the line is at 2, one add is lost.
C15_Witness ==
    /\ hist.overlap
    /\ \A r \in Requests : inflight[r].pc = "done" /\ inflight[r].res.success
    /\ inflight["r1"].productId = inflight["r2"].productId
    /\ \E r \in Requests : cart = inflight[r].doc
    /\ \A r \in Requests : inflight[r].quantity = 1
    /\ QuantityInCart(hist.base.items, inflight["r1"].productId) = 1
    /\ QuantityInCart(cart.items, inflight["r1"].productId) = 2
    /\ LostUpdate

\* The stored ratings of a product agree with its stored reviews: no user has
\* two reviews, count is the number of reviews, and average (in tenths) is 0
\* without reviews and otherwise a tenth nearest to the mean of the ratings.
RatingsAgree(product) ==
    LET n == Len(product.reviews)
        sum == SumRatings(product.reviews)
    IN  /\ \A i, j \in 1..n :
              product.reviews[i].user = product.reviews[j].user => i = j
        /\ product.ratings.count = n
        /\ n = 0 => product.ratings.average = 0
        /\ n > 0 =>
              /\ 2 * (product.ratings.average * n - 10 * sum) <= n
              /\ 2 * (10 * sum - product.ratings.average * n) <= n

\* C16: before and after every step the reviews and ratings of the product
\* agree (RatingsAgree); an addReview is accepted only from a user without a
\* review on the product, and then appends that user's review; the one
\* answered 400 'already reviewed' finds a review and changes nothing.
C16_ReviewsAndRatings ==
    [][/\ RatingsAgree(catalog["p1"])
       /\ RatingsAgree(catalog'["p1"])
       /\ (last'.op = "addReview" /\ last'.pid = "p1"
              /\ last'.msg # "Validation failed") =>
             \/ /\ last'.status = 201
                /\ last'.success
                /\ \A i \in 1..Len(catalog["p1"].reviews) :
                       catalog["p1"].reviews[i].user # last'.n
                /\ catalog'["p1"].reviews =
                       Append(catalog["p1"].reviews,
                              [user |-> last'.n, rating |-> last'.qty])
             \/ /\ last'.status = 400
                /\ ~last'.success
                /\ catalog["p1"].reviews # <<>>
                /\ catalog' = catalog]_vars

\* Three reviews rated 5, 4 and 3: the average is 4.0 and the count 3.
C16_Witness ==
    /\ Len(catalog["p1"].reviews) = 3
    /\ catalog["p1"].reviews[1].rating = 5
    /\ catalog["p1"].reviews[2].rating = 4
    /\ catalog["p1"].reviews[3].rating = 3
    /\ catalog["p1"].ratings = [average |-> 40, count |-> 3]
    /\ last.op = "addReview"
    /\ last.status = 201

\* The queries that return lists of products.
ListOps == {"getProducts", "searchProducts", "getRelatedProducts"}

\* C17: a soft delete changes isActive of the product to false and nothing
\* else in the catalog; only an updateProduct makes an inactive product active
\* again; every product a list, search or related query returns is active;
\* and getProduct of a stored product answers 200 with it, active or not.
C17_SoftDelete ==
    [][/\ last'.op = "deleteProduct" =>
             /\ last'.pid \in DOMAIN catalog
             /\ catalog' = [catalog EXCEPT ![last'.pid].isActive = FALSE]
       /\ \A id \in DOMAIN catalog :
             (~catalog[id].isActive /\ last'.op # "updateProduct") =>
                 /\ id \in DOMAIN catalog'
                 /\ ~catalog'[id].isActive
       /\ last'.op \in ListOps =>
             \A id \in last'.data.products :
                 id \in DOMAIN catalog' /\ catalog'[id].isActive
       /\ (last'.op = "getProduct" /\ last'.pid \in DOMAIN catalog') =>
             /\ last'.status = 200
             /\ last'.data.products = {last'.pid}]_vars

\* p1 is soft-deleted and p2, of the same category, is active: related of p2
\* returns no product.
C17_Witness ==
    /\ ~catalog["p1"].isActive
    /\ catalog["p2"].isActive
    /\ catalog["p1"].category = catalog["p2"].category
    /\ last.op = "getRelatedProducts"
    /\ last.pid = "p2"
    /\ last.status = 200
    /\ last.data.products = {}

\* C18: every line item of the stored cart has a quantity between 1 and 100.
C18_QuantityWithinRouteRange ==
    cart.exists =>
        \A i \in 1..Len(cart.items) :
            cart.items[i].quantity >= 1 /\ cart.items[i].quantity <= 100

\* C19: no two line items of the stored cart reference the same product.
C19_OneLinePerProduct ==
    cart.exists =>
        \A i, j \in 1..Len(cart.items) :
            cart.items[i].product = cart.items[j].product => i = j

\* An add has just merged into the line of its product, next to a line of the
\* other product.
C19_Witness ==
    /\ cart.exists
    /\ Len(cart.items) = 2
    /\ last.op = "addItem"
    /\ last.success
    /\ QuantityInCart(cart.items, last.pid) > last.qty

====
